---- MODULE Spec2Model ----
(***************************************************************************)
(* The useMovies hook (src/src/useMovies.js): a React effect keyed on the   *)
(* query that starts one asynchronous lookup per query change, aborts the   *)
(* previous one in its cleanup, and publishes {movies, isLoading, error}.   *)
(*                                                                         *)
(* One action is one uninterrupted JavaScript step: an effect run (with     *)
(* the previous effect's cleanup), or the continuation of fetchMovies       *)
(* after one of its two awaits settles.  The transport (fetch, res.json)    *)
(* is the environment: it picks how each await settles.                     *)
(***************************************************************************)
EXTENDS Integers, Sequences, FiniteSets, TLC

(* ------------------------------ bounds --------------------------------- *)
\* Calls of useMovies after the first render, and so effect runs too.
MaxEffects == 3

(* ----------------------------- constants ------------------------------- *)
KEY == "b0237cb1"

MinQueryLength == 3

Word == "batm"

\* What the user has typed so far: the prefixes of Word, of lengths 0 to 4.
Queries == { SubSeq(Word, 1, n) : n \in 0..Len(Word) }

Items == {"tt1", "tt2"}

Statuses == {200, 300, 404}

(* ----------------------------- JS values ------------------------------- *)
\* A JavaScript value held in `movies` / `data.Search`: an array or undefined.
Arr(s) == [kind |-> "array", items |-> s]

Undefined == [kind |-> "undefined", items |-> <<>>]

\* The Search arrays the endpoint may return: no match at all, or the two
\* items in either order.
Arrays ==
  { Arr(<<>>) } \cup { Arr(<<p[1], p[2]>>) : p \in { r \in Items \X Items : r[1] # r[2] } }

\* Decoded bodies: { Response: "True"|"False", Search?: ResultItem[] }.
Bodies ==
  [Response : {"True"}, Search : Arrays \cup {Undefined}]
    \cup [Response : {"False"}, Search : {Undefined}]

NoRes == [status |-> 0, ok |-> FALSE]

NoData == [Response |-> "", Search |-> Undefined]

NoErr == [name |-> "", message |-> ""]

\* What the transport has handed to an attempt so far: the resolved `res`,
\* the decoded `data`, and the fault a rejected await raised.
NoDelivery == [res |-> NoRes, data |-> NoData, err |-> NoErr]

\* `${res.status}`: number to decimal string.
Digit(d) == SubSeq("0123456789", d + 1, d + 1)

RECURSIVE DecimalString(_)
DecimalString(n) ==
  IF n < 10 THEN Digit(n) ELSE DecimalString(n \div 10) \o Digit(n % 10)

\* Slip: the upper end of the 2xx range is off by one.
OkInclusive(status) == status >= 200 /\ status <= 300

\* Slip: the status of the response is not looked at.
OkAlways(status) == TRUE

\* `res.ok`: the status is in 200..299.
Ok(status) == status >= 200 /\ status <= 299

Response(status) == [status |-> status, ok |-> Ok(status)]

HttpError(res) ==
  [name |-> "Error",
   message |-> "Something wrong with fetching movies. HTTP error status: "
                 \o DecimalString(res.status)]

NotFoundError == [name |-> "Error", message |-> "Movie not found!"]

AbortError == [name |-> "AbortError", message |-> "The user aborted a request."]

NetworkError == [name |-> "TypeError", message |-> "Failed to fetch"]

ParseError == [name |-> "SyntaxError", message |-> "Unexpected end of JSON input"]

\* Slip: the search term is left out of the request.
UrlWithoutQuery(q) == "http://www.omdbapi.com/?apikey=" \o KEY \o "&&s="

Url(q) == "http://www.omdbapi.com/?apikey=" \o KEY \o "&&s=" \o q

(* ------------------------------- state --------------------------------- *)
VARIABLES
  query,      \* the hook's argument
  lifecycle,  \* "constructed" (rendered, effect not yet run) | "mounted" | "unmounted"
  movies, isLoading, error,   \* the three useState cells
  effects,    \* one record per run of the effect: its controller and its fetchMovies call
  cleanup,    \* index of the effect whose cleanup function is registered, 0 if none
  requests,   \* the fetch calls made so far
  log,        \* console.log output
  delivered,  \* what the transport has handed to the attempt of the latest effect run
  lastSettled,\* index of the attempt that ran its finally block most recently, 0 if none
  honoured,   \* no cancelled attempt has been handed anything but the abort fault
  rerenders   \* calls of useMovies with the query of the previous call

vars == <<query, lifecycle, movies, isLoading, error, effects, cleanup, requests, log,
          delivered, lastSettled, honoured, rerenders>>

triple == <<movies, isLoading, error>>

\* Slip: the loading flag starts out true.
InitLoading ==
  /\ query \in Queries
  /\ lifecycle = "constructed"
  /\ movies = Arr(<<>>)
  /\ isLoading = TRUE
  /\ error = ""
  /\ effects = <<>>
  /\ cleanup = 0
  /\ requests = <<>>
  /\ log = <<>>
  /\ delivered = NoDelivery
  /\ lastSettled = 0
  /\ honoured = TRUE
  /\ rerenders = 0

\* The first render: the three useState initial values, no effect run yet.
Init ==
  /\ query \in Queries
  /\ lifecycle = "constructed"
  /\ movies = Arr(<<>>)
  /\ isLoading = FALSE
  /\ error = ""
  /\ effects = <<>>
  /\ cleanup = 0
  /\ requests = <<>>
  /\ log = <<>>
  /\ delivered = NoDelivery
  /\ lastSettled = 0
  /\ honoured = TRUE
  /\ rerenders = 0

(* --------------------------- React plumbing ---------------------------- *)
\* A useState setter: React drops updates of a component that is unmounted.
SetState(value, current) == IF lifecycle = "mounted" THEN value ELSE current

\* Slip: the gate also stops a query of exactly three characters.
GatedInclusive(q) == Len(q) <= MinQueryLength

\* The minimum-length gate, `query.length < 3`.
Gated(q) == Len(q) < MinQueryLength

\* Slip: one controller is shared by all effect runs, so a run that follows
\* a cleanup starts with a token that is already signalled.
NewEffectSharedToken(q, pc) == [query |-> q, aborted |-> (cleanup # 0), pc |-> pc]

\* `new AbortController()` plus the locals of the fetchMovies call of this run.
NewEffect(q, pc) == [query |-> q, aborted |-> FALSE, pc |-> pc]

\* Slip: the effect returns no cleanup, so no token is ever signalled.
AbortNothing(effs, c) == effs

\* The cleanup function returned by the previous run: controller.abort().
Abort(effs, c) == IF c = 0 THEN effs ELSE [effs EXCEPT ![c].aborted = TRUE]

\* The body of the effect for query q, run on top of the effect list effs.
RunEffect(q, effs) ==
  LET id == Len(effs) + 1 IN
  IF Gated(q)
  THEN /\ movies' = Arr(<<>>)
       /\ error' = ""
       /\ isLoading' = isLoading
       /\ requests' = requests
       /\ effects' = Append(effs, NewEffect(q, "gated"))
       /\ cleanup' = 0
       /\ delivered' = NoDelivery
  ELSE /\ isLoading' = TRUE
       /\ error' = ""
       /\ movies' = movies
       /\ requests' = Append(requests, [url |-> Url(q), signal |-> id])
       /\ effects' = Append(effs, NewEffect(q, "fetch"))
       /\ cleanup' = id
       /\ delivered' = NoDelivery

(* ------------------------------ actions -------------------------------- *)
\* First commit: the effect runs for the initial query.
Mount ==
  /\ lifecycle = "constructed"
  /\ lifecycle' = "mounted"
  /\ RunEffect(query, effects)
  /\ UNCHANGED <<query, log, lastSettled, honoured, rerenders>>

\* The caller re-renders with another query: cleanup of the previous run,
\* then the effect body.  The same query does not re-run the effect.
QueryChange(q) ==
  /\ lifecycle = "mounted"
  /\ q # query
  /\ Len(effects) + rerenders < MaxEffects
  /\ query' = q
  /\ RunEffect(q, Abort(effects, cleanup))
  /\ UNCHANGED <<lifecycle, log, lastSettled, honoured, rerenders>>

\* Slip: the effect has no dependency array and runs again on every render.
RerenderRunsEffect ==
  /\ lifecycle = "mounted"
  /\ Len(effects) + rerenders < MaxEffects
  /\ rerenders' = rerenders + 1
  /\ RunEffect(query, Abort(effects, cleanup))
  /\ UNCHANGED <<query, lifecycle, log, lastSettled, honoured>>

\* The caller renders again with the same query: the dependency array
\* `[query]` is unchanged, so neither the cleanup nor the effect body runs.
Rerender ==
  /\ lifecycle = "mounted"
  /\ Len(effects) + rerenders < MaxEffects
  /\ rerenders' = rerenders + 1
  /\ UNCHANGED <<query, lifecycle, movies, isLoading, error, effects, cleanup, requests,
                 log, delivered, lastSettled, honoured>>

\* Slip: detaching leaves the outstanding request running.
UnmountNoCleanup ==
  /\ lifecycle = "mounted"
  /\ lifecycle' = "unmounted"
  /\ cleanup' = 0
  /\ UNCHANGED <<query, movies, isLoading, error, effects, requests, log,
                 delivered, lastSettled, honoured, rerenders>>

\* The consumer detaches: only the registered cleanup runs.
Unmount ==
  /\ lifecycle = "mounted"
  /\ lifecycle' = "unmounted"
  /\ effects' = Abort(effects, cleanup)
  /\ cleanup' = 0
  /\ UNCHANGED <<query, movies, isLoading, error, requests, log,
                 delivered, lastSettled, honoured, rerenders>>

\* Slip: the cancellation fault is not filtered out.
ReportedAlways(err) == err.name # ""

\* `error.name !== "AbortError"`.
Reported(err) == err.name # "AbortError"

\* Slip: the loading flag is not reset when an attempt ends.
FinallySkipsLoading(i) ==
  /\ isLoading' = isLoading
  /\ effects' = [effects EXCEPT ![i].pc = "done"]
  /\ lastSettled' = i

\* `finally { setIsLoading(false) }` of attempt i.
Finally(i) ==
  /\ isLoading' = SetState(FALSE, isLoading)
  /\ effects' = [effects EXCEPT ![i].pc = "done"]
  /\ lastSettled' = i

\* Slip: a reported failure also empties the result list.
ThrowClearing(i, err) ==
  /\ log' = IF Reported(err) THEN Append(log, err.message) ELSE log
  /\ error' = IF Reported(err) THEN SetState(err.message, error) ELSE error
  /\ movies' = IF Reported(err) THEN SetState(Arr(<<>>), movies) ELSE movies
  /\ Finally(i)

\* Slip: the catch block rethrows what it has reported, so the promise of
\* the attempt rejects.
ThrowRethrowing(i, err) ==
  /\ log' = IF Reported(err) THEN Append(log, err.message) ELSE log
  /\ error' = IF Reported(err) THEN SetState(err.message, error) ELSE error
  /\ movies' = movies
  /\ isLoading' = SetState(FALSE, isLoading)
  /\ effects' = [effects EXCEPT ![i].pc = IF Reported(err) THEN "rejected" ELSE "done"]
  /\ lastSettled' = i

\* Slip: the catch block shows a fixed text instead of the fault's message.
ThrowGeneric(i, err) ==
  /\ log' = IF Reported(err) THEN Append(log, err.message) ELSE log
  /\ error' = IF Reported(err) THEN SetState("Something went wrong", error) ELSE error
  /\ movies' = movies
  /\ Finally(i)

\* Slip: the catch block shows the failure without logging it.
ThrowUnlogged(i, err) ==
  /\ log' = log
  /\ error' = IF Reported(err) THEN SetState(err.message, error) ELSE error
  /\ movies' = movies
  /\ Finally(i)

\* catch + finally of attempt i for the thrown value err.
Throw(i, err) ==
  /\ log' = IF Reported(err) THEN Append(log, err.message) ELSE log
  /\ error' = IF Reported(err) THEN SetState(err.message, error) ELSE error
  /\ movies' = movies
  /\ Finally(i)

\* What the transport may do with `await fetch(url, {signal})`.
FetchOutcomes ==
  { [kind |-> "reject", err |-> e, res |-> NoRes] : e \in {AbortError, NetworkError} }
    \cup { [kind |-> "resolve", err |-> NoErr, res |-> Response(s)] : s \in Statuses }

\* What the transport may do with `await res.json()`.
JsonOutcomes ==
  { [kind |-> "reject", err |-> e, data |-> NoData] : e \in {AbortError, ParseError} }
    \cup { [kind |-> "resolve", err |-> NoErr, data |-> d] : d \in Bodies }

\* An abort fault is raised only for a signalled token; a transport that
\* ignores the signal hands some other outcome to a cancelled attempt.
Deliverable(e, out) == (out.err = AbortError) => e.aborted

Honours(e, out) == e.aborted => out.err = AbortError

\* Slip: the not-found marker is compared in the wrong letter case.
IsNotFoundLowercase(data) == data.Response = "false"

\* `data.Response === "False"`.
IsNotFound(data) == data.Response = "False"

\* Slip: the new page is appended to the list instead of replacing it.
PublishedAppended(data) ==
  IF movies.kind = "array" /\ data.Search.kind = "array"
  THEN Arr(movies.items \o data.Search.items)
  ELSE data.Search

\* Slip: a successful lookup leaves the list that was on show.
PublishedKept(data) == movies

\* `setMovies(data.Search)`: the new value of movies.
Published(data) == data.Search

\* The first await settles and fetchMovies runs on to its next await or its end.
FetchSettle(i, out) ==
  /\ effects[i].pc = "fetch"
  /\ Deliverable(effects[i], out)
  /\ honoured' = (honoured /\ Honours(effects[i], out))
  /\ delivered' = IF i = Len(effects)
                  THEN [delivered EXCEPT !.res = out.res, !.err = out.err]
                  ELSE delivered
  /\ IF out.kind = "reject"
     THEN Throw(i, out.err)
     ELSE IF ~out.res.ok
     THEN Throw(i, HttpError(out.res))
     ELSE /\ effects' = [effects EXCEPT ![i].pc = "json"]
          /\ UNCHANGED <<movies, isLoading, error, log, lastSettled>>
  /\ UNCHANGED <<query, lifecycle, cleanup, requests, rerenders>>

\* The second await settles and fetchMovies runs to its end.
JsonSettle(i, out) ==
  /\ effects[i].pc = "json"
  /\ Deliverable(effects[i], out)
  /\ honoured' = (honoured /\ Honours(effects[i], out))
  /\ delivered' = IF i = Len(effects)
                  THEN [delivered EXCEPT !.data = out.data, !.err = out.err]
                  ELSE delivered
  /\ IF out.kind = "reject"
     THEN Throw(i, out.err)
     ELSE IF IsNotFound(out.data)
     THEN Throw(i, NotFoundError)
     ELSE /\ movies' = SetState(Published(out.data), movies)
          /\ error' = SetState("", error)
          /\ log' = log
          /\ Finally(i)
  /\ UNCHANGED <<query, lifecycle, cleanup, requests, rerenders>>

Next ==
  \/ Mount
  \/ \E q \in Queries : QueryChange(q)
  \/ Rerender
  \/ Unmount
  \/ \E i \in 1..Len(effects), out \in FetchOutcomes : FetchSettle(i, out)
  \/ \E i \in 1..Len(effects), out \in JsonOutcomes : JsonSettle(i, out)

Spec == Init /\ [][Next]_vars

\* Every issued request eventually settles: each await of each attempt is
\* eventually resumed by the transport.
Settlement(i) ==
  \/ \E out \in FetchOutcomes : i <= Len(effects) /\ FetchSettle(i, out)
  \/ \E out \in JsonOutcomes : i <= Len(effects) /\ JsonSettle(i, out)

FairSpec == Spec /\ \A i \in 1..MaxEffects : WF_vars(Settlement(i))

TypeOK ==
  /\ query \in Queries
  /\ lifecycle \in {"constructed", "mounted", "unmounted"}
  /\ isLoading \in BOOLEAN
  /\ cleanup \in 0..Len(effects)
  /\ Len(effects) <= MaxEffects

(* ----------------------------- observers ------------------------------- *)
Last == Len(effects)

\* Effect run i called fetchMovies (it was not stopped by the gate).
IsAttempt(i) == effects[i].pc # "gated"

\* Attempt i has run its finally block.
Done(i) == effects[i].pc = "done"

\* This step runs the finally block of attempt i.
Settles(i) == effects[i].pc \in {"fetch", "json"} /\ effects'[i].pc = "done"

\* This step runs the effect body (first commit or query change).
EffectRuns == Len(effects') = Len(effects) + 1

\* Attempt Last is the current one: started, not cancelled, not yet settled.
CurrentAt(pc) == Last >= 1 /\ effects[Last].pc = pc /\ ~effects[Last].aborted

\* This step resumes the current attempt from its await at pc.
CurrentResumes(pc) == CurrentAt(pc) /\ Len(effects') = Last /\ effects'[Last].pc # pc

Contains(s, sub) ==
  \E k \in 1..(Len(s) - Len(sub) + 1) : SubSeq(s, k, k + Len(sub) - 1) = sub

\* The error string the hook is to show for what the transport delivered.
ExpectedError(d) ==
  IF d.err # NoErr THEN d.err.message
  ELSE IF d.res.status \div 100 # 2
  THEN "Something wrong with fetching movies. HTTP error status: " \o ToString(d.res.status)
  ELSE IF d.data.Response = "False" THEN "Movie not found!"
  ELSE ""

(* ------------------------------- claims -------------------------------- *)

\* C1: with a transport that honours cancellation, once two consecutive
\* attempts (the first superseded by the second) have both settled, error is
\* the one the second attempt's outcome produces, results is its Search array
\* if it succeeded, isLoading is false; and neither the settling of the
\* superseded attempt nor a failure of the second changes results.
C1_Final ==
  ( /\ lifecycle = "mounted" /\ honoured /\ Last >= 2
    /\ IsAttempt(Last - 1) /\ IsAttempt(Last) /\ Done(Last - 1) /\ Done(Last) )
  => /\ isLoading = FALSE
     /\ error = ExpectedError(delivered)
     /\ (ExpectedError(delivered) = "" => movies = delivered.data.Search)

C1_Step ==
  ( /\ lifecycle = "mounted" /\ honoured'
    /\ \E i \in 1..Last : Settles(i) /\ (i < Last \/ ExpectedError(delivered') # "") )
  => movies' = movies

\* C1: the final-state part and the step part together.
C1_LastAttemptWins == []C1_Final /\ [][C1_Step]_vars

\* The superseded attempt settled after the attempt that superseded it.
C1_Witness ==
  /\ lifecycle = "mounted" /\ honoured /\ Last >= 2
  /\ IsAttempt(Last - 1) /\ IsAttempt(Last) /\ Done(Last - 1) /\ Done(Last)
  /\ lastSettled = Last - 1
  /\ delivered.data.Response = "True"
  /\ movies = delivered.data.Search
  /\ movies.items # <<>>

\* C2: an attempt whose token was signalled before it settled writes neither
\* results nor error when it settles, whatever the transport handed to it.
C2_StaleDiscarded ==
  [][ \A i \in 1..Last : (Settles(i) /\ effects[i].aborted)
                           => (movies' = movies /\ error' = error) ]_vars

\* C3: after a change from a query with an outstanding attempt to a gated
\* query, once that attempt has settled the triple is the gate state.
C3_GateStateFinal ==
  ( /\ lifecycle = "mounted" /\ Last >= 2
    /\ effects[Last].pc = "gated" /\ IsAttempt(Last - 1) /\ Done(Last - 1) )
  => (movies = Arr(<<>>) /\ error = "" /\ isLoading = FALSE)

\* C4: the step that processes a query of length < 3 empties results, empties
\* error and issues no request; a query of length >= 3 issues one.
C4_GateStep ==
  [][ EffectRuns =>
        IF Len(query') < 3
        THEN movies' = Arr(<<>>) /\ error' = "" /\ requests' = requests
        ELSE Len(requests') = Len(requests) + 1 ]_vars

\* A two-character query was gated after an earlier attempt had reported a failure.
C4_Witness ==
  /\ Last = 2 /\ effects[2].pc = "gated" /\ Len(query) = 2
  /\ Len(requests) = 1 /\ log # <<>> /\ honoured
  /\ movies = Arr(<<>>) /\ error = ""

\* C5: right after a query of length < 3 has been processed, isLoading is false.
C5_GateNotLoading ==
  [][ (EffectRuns /\ Len(query') < 3) => isLoading' = FALSE ]_vars

\* C6: when the current attempt's body decodes with Response other than
\* "False", results becomes exactly its Search value, error is empty,
\* isLoading is false and the attempt has ended.
C6_Success ==
  [][ ( /\ CurrentResumes("json")
        /\ delivered'.data # NoData
        /\ delivered'.data.Response # "False" )
      => /\ movies' = delivered'.data.Search
         /\ error' = ""
         /\ isLoading' = FALSE
         /\ effects'[Last].pc = "done" ]_vars

C6_Witness ==
  /\ lifecycle = "mounted" /\ Last >= 2 /\ Done(Last) /\ ~effects[Last].aborted
  /\ lastSettled = Last
  /\ delivered.data.Response = "True"
  /\ Len(delivered.data.Search.items) = 2
  /\ movies = delivered.data.Search /\ error = "" /\ isLoading = FALSE

\* C7: when the current attempt's body decodes with Response "False", error
\* becomes "Movie not found!", results is unchanged, isLoading is false.
C7_NotFound ==
  [][ (CurrentResumes("json") /\ delivered'.data.Response = "False")
      => /\ error' = "Movie not found!"
         /\ movies' = movies
         /\ isLoading' = FALSE ]_vars

C7_Witness ==
  /\ lifecycle = "mounted" /\ honoured /\ Last >= 2 /\ Done(Last) /\ lastSettled = Last
  /\ delivered.data.Response = "False"
  /\ error = "Movie not found!" /\ isLoading = FALSE
  /\ movies.items # <<>>

\* C8: when the current attempt receives a response with a non-2xx status s,
\* error becomes a message containing the decimal digits of s, results is
\* unchanged and isLoading is false.
C8_HttpStatus ==
  [][ ( /\ CurrentResumes("fetch")
        /\ delivered'.res # NoRes
        /\ delivered'.res.status \div 100 # 2 )
      => /\ Contains(error', ToString(delivered'.res.status))
         /\ movies' = movies
         /\ isLoading' = FALSE ]_vars

C8_Witness ==
  /\ lifecycle = "mounted" /\ honoured /\ Last >= 2 /\ Done(Last) /\ lastSettled = Last
  /\ delivered.res.status = 404
  /\ Contains(error, "404") /\ isLoading = FALSE
  /\ movies.items # <<>>

\* C9 as stated, for a transport that honours cancellation: results is empty
\* whenever the processed query is shorter than 3 or the latest attempt has
\* settled with a non-cancellation failure.
C9_EmptyOnGateOrFailure ==
  ( /\ lifecycle = "mounted" /\ honoured
    /\ \/ Len(query) < 3
       \/ /\ IsAttempt(Last) /\ Done(Last)
          /\ ExpectedError(delivered) # "" /\ delivered.err # AbortError )
  => movies = Arr(<<>>)

\* C9 amended: the step that processes a query shorter than 3 empties
\* results, and a step in which an attempt reports a failure leaves results
\* as it was.
C9_GateEmptiesFailureKeeps ==
  [][ /\ (EffectRuns /\ Len(query') < 3) => movies' = Arr(<<>>)
      /\ \A i \in 1..Last : (Settles(i) /\ log' # log) => movies' = movies ]_vars

\* The latest attempt failed with HTTP 404 and the earlier results are still shown.
C9_Witness ==
  /\ lifecycle = "mounted" /\ honoured /\ IsAttempt(Last) /\ Done(Last)
  /\ delivered.res.status = 404 /\ error # ""
  /\ movies.items # <<>>

\* C10: an attempt whose token was signalled before it settled changes
\* neither results nor error and writes no log entry when it settles.
C10_CancelledSilent ==
  [][ \A i \in 1..Last : (Settles(i) /\ effects[i].aborted)
                           => (movies' = movies /\ error' = error /\ log' = log) ]_vars

\* Attempt i is live: started, token not signalled, finally block not yet run.
Live(i) == effects[i].pc \in {"fetch", "json"} /\ ~effects[i].aborted

\* C11: at most one attempt is live, and the token of every attempt that a
\* later effect run has superseded is signalled.
C11_OneLiveAttempt ==
  /\ Cardinality({ i \in 1..Last : Live(i) }) <= 1
  /\ \A i \in 1..Last : (i < Last /\ IsAttempt(i)) => effects[i].aborted

\* The superseded attempt is still outstanding next to the live one.
C11_Witness ==
  /\ Last >= 2
  /\ effects[Last - 1].pc = "fetch" /\ effects[Last - 1].aborted
  /\ Live(Last)

\* C12, for a transport that honours cancellation: while the newest attempt
\* is outstanding, the settling of an attempt it superseded changes no
\* component of the triple.
C12_SupersededSilent ==
  [][ \A i \in 1..Last :
        (lifecycle = "mounted" /\ honoured' /\ i < Last /\ Live(Last) /\ Settles(i))
          => triple' = triple ]_vars

\* C13: the detach step signals the registered token and starts nothing, and
\* no later step starts an attempt or changes results or error.
C13_DetachFinal ==
  [][ /\ (lifecycle = "mounted" /\ lifecycle' = "unmounted")
         => /\ \A i \in 1..Last : Live(i) => effects'[i].aborted
            /\ Len(effects') = Last /\ requests' = requests
            /\ movies' = movies /\ error' = error
      /\ lifecycle = "unmounted"
         => /\ lifecycle' = "unmounted"
            /\ Len(effects') = Last /\ requests' = requests
            /\ movies' = movies /\ error' = error ]_vars

\* The attempt outstanding at detach has settled since, with results on show.
C13_Witness ==
  /\ lifecycle = "unmounted" /\ Last >= 2
  /\ effects[Last].aborted /\ Done(Last) /\ lastSettled = Last
  /\ isLoading = TRUE
  /\ movies.items # <<>>

\* Attempt i has been started and has not run its finally block.
Outstanding(i) == i <= Last /\ effects[i].pc \in {"fetch", "json"}

\* The step in which an attached hook's attempt runs its finally block
\* leaves isLoading false, whatever the outcome handed to the attempt.
C14_FinallyStep ==
  \A i \in 1..Last : (lifecycle = "mounted" /\ Settles(i)) => isLoading' = FALSE

\* C14: when every request eventually settles, every started attempt
\* eventually has run its finally block for good, and the step in which an
\* attached hook's attempt runs it sets isLoading to false, for success, for
\* each failure kind and for cancellation alike.
C14_AlwaysFinally ==
  /\ \A i \in 1..MaxEffects : <>[](~Outstanding(i))
  /\ [][C14_FinallyStep]_vars

\* A cancelled attempt ran its finally block after the hook had shown loading.
C14_Witness ==
  /\ lifecycle = "mounted" /\ honoured /\ Last >= 2
  /\ effects[1].aborted /\ Done(1) /\ lastSettled = 1
  /\ isLoading = FALSE

\* The step hands the latest attempt a failure other than the abort fault.
C15_FailureStep ==
  /\ Last >= 1 /\ Len(effects') = Last
  /\ effects[Last].pc \in {"fetch", "json"} /\ effects'[Last].pc # effects[Last].pc
  /\ delivered'.err # AbortError
  /\ ExpectedError(delivered') # ""

\* C15: the promise of no attempt ever rejects, and the step in which the
\* latest attempt of an attached hook is handed a failure (a non-2xx status,
\* the not-found marker, a network fault or a body-parse fault) ends the
\* attempt normally with error set to the failure's message.
C15_FailuresCaught ==
  /\ [](\A i \in 1..Last : effects[i].pc \in {"gated", "fetch", "json", "done"})
  /\ [][ (lifecycle = "mounted" /\ C15_FailureStep)
           => (Done(Last)' /\ error' = ExpectedError(delivered')) ]_vars

\* The latest attempt ended normally on a body-parse fault, now in error.
C15_Witness ==
  /\ lifecycle = "mounted" /\ Last >= 1 /\ Done(Last) /\ lastSettled = Last
  /\ delivered.err = ParseError
  /\ error = ParseError.message
  /\ log # <<>>

\* The effect body runs for a query that passes the gate.
C16_StartStep == EffectRuns /\ Len(query') >= 3

\* C16: the step that processes a change to a query of three or more
\* characters sets isLoading to true and error to empty, leaves results
\* unchanged and issues exactly one request, whose URL carries the fixed key
\* and that query; and the number of requests issued so far is the number of
\* effect runs that passed the gate.
C16_AttemptStart ==
  /\ [][ C16_StartStep
           => /\ isLoading' = TRUE /\ error' = "" /\ movies' = movies
              /\ Len(requests') = Len(requests) + 1
              /\ SubSeq(requests', 1, Len(requests)) = requests
              /\ requests'[Len(requests')].url
                    = "http://www.omdbapi.com/?apikey=b0237cb1&&s=" \o query' ]_vars
  /\ [](Len(requests) = Cardinality({ i \in 1..Last : IsAttempt(i) }))

\* A change to a query of exactly three characters started an attempt while
\* an earlier failure had been on show.
C16_Witness ==
  /\ lifecycle = "mounted" /\ Last >= 2
  /\ Len(query) = 3 /\ effects[Last].pc = "fetch"
  /\ isLoading = TRUE /\ error = "" /\ log # <<>>
  /\ Len(requests) = 2

\* C17: while the hook has not been detached, isLoading is true only if some
\* started attempt has not yet run its finally block; so isLoading is false
\* before the first effect run and whenever every started attempt has settled.
C17_LoadingOnlyOutstanding ==
  lifecycle # "unmounted" => (isLoading => \E i \in 1..Last : Outstanding(i))

\* Loading is on show while the one outstanding attempt is a cancelled one
\* and the latest effect run was stopped by the gate.
C17_Witness ==
  /\ lifecycle = "mounted" /\ isLoading = TRUE /\ Last >= 2
  /\ effects[Last].pc = "gated"
  /\ effects[Last - 1].pc = "json" /\ effects[Last - 1].aborted

\* The triple a first lookup ends in is fixed by what the transport handed to
\* it, however often the hook was called with the same query meanwhile.
C18_Final ==
  (lifecycle = "mounted" /\ Last = 1 /\ Done(1))
    => /\ isLoading = FALSE
       /\ error = ExpectedError(delivered)
       /\ movies = IF ExpectedError(delivered) = "" THEN delivered.data.Search ELSE Arr(<<>>)

\* C18: a call of the hook with the query of the previous call changes no
\* component of the triple, signals no token and issues no request, so with
\* the same response the lookup for that query ends in the same triple after
\* the second call as after the first.
C18_SameQueryIdempotent ==
  /\ [][ (rerenders' # rerenders)
          => /\ query' = query /\ triple' = triple
             /\ effects' = effects /\ cleanup' = cleanup
             /\ requests' = requests /\ delivered' = delivered ]_vars
  /\ []C18_Final

\* The query was issued a second time and its one lookup has published.
C18_Witness ==
  /\ lifecycle = "mounted" /\ rerenders >= 1
  /\ Last = 1 /\ Done(1) /\ Len(requests) = 1
  /\ isLoading = FALSE /\ error = ""
  /\ movies = delivered.data.Search /\ movies.items # <<>>

\* C19: the step in which an await of the current attempt rejects with a
\* fault other than the abort fault (a network fault of the request, a fault
\* of decoding the body) sets error to exactly that fault's message, leaves
\* results unchanged and leaves isLoading false.
C19_ExceptionMessage ==
  [][ ( /\ CurrentResumes("fetch") \/ CurrentResumes("json")
        /\ delivered'.err \notin {NoErr, AbortError} )
        => /\ error' = delivered'.err.message
           /\ movies' = movies
           /\ isLoading' = FALSE ]_vars

\* A network fault ended the current attempt while the results of an earlier
\* lookup were on show.
C19_Witness ==
  /\ lifecycle = "mounted" /\ honoured /\ Last >= 2
  /\ Done(Last) /\ ~effects[Last].aborted /\ lastSettled = Last
  /\ delivered.err = NetworkError
  /\ error = "Failed to fetch"
  /\ movies.items # <<>>
  /\ isLoading = FALSE

\* What a step may do to the log: nothing unless an attempt runs its finally
\* block in it, and then at most one entry, the text an attached hook then
\* has in error.  The latest attempt adds its entry exactly when it was
\* handed a failure other than the abort fault; a superseded attempt handed
\* the abort fault adds none.
C20_LogStep ==
  /\ (~\E i \in 1..Last : Settles(i)) => log' = log
  /\ \A i \in 1..Last : Settles(i) =>
        /\ \/ log' = log
           \/ /\ Len(log') = Len(log) + 1
              /\ SubSeq(log', 1, Len(log)) = log
              /\ lifecycle = "mounted" => log'[Len(log')] = error'
        /\ i = Last =>
              log' = IF ExpectedError(delivered') # "" /\ delivered'.err # AbortError
                     THEN Append(log, ExpectedError(delivered'))
                     ELSE log
        /\ (i < Last /\ honoured') => log' = log

C21_CurrentLoading ==
  (lifecycle = "mounted" /\ honoured /\ Last >= 1 /\ Live(Last)) => isLoading = TRUE

\* The latest attempt's request resolves in this step with a status outside
\* 200..299.
C22_NonOkStep ==
  /\ Last >= 1 /\ Len(effects') = Last
  /\ effects[Last].pc = "fetch" /\ effects'[Last].pc # "fetch"
  /\ delivered'.err = NoErr
  /\ delivered'.res.status \div 100 # 2

\* C22: an attempt waits for the body only of a 2xx response; the step that
\* hands it any other status ends the attempt without decoding a body, logs
\* the message with the status code, and leaves an attached hook with that
\* message in error, never with "Movie not found!".
C22_StatusFirst ==
  /\ [](\A i \in 1..Last :
          (i = Last /\ effects[i].pc = "json") => delivered.res.status \div 100 = 2)
  /\ [][ C22_NonOkStep
          => /\ Done(Last)'
             /\ delivered'.data = NoData
             /\ log' = Append(log, "Something wrong with fetching movies. HTTP error status: "
                                     \o ToString(delivered'.res.status))
             /\ lifecycle = "mounted"
                  => (error' = log'[Len(log')] /\ error' # "Movie not found!") ]_vars

\* A redirect status ended the latest attempt before any body was decoded.
C22_Witness ==
  /\ lifecycle = "mounted" /\ Last >= 1 /\ Done(Last) /\ lastSettled = Last
  /\ delivered.res.status = 300 /\ delivered.data = NoData
  /\ error = "Something wrong with fetching movies. HTTP error status: 300"

\* No attempt is outstanding.
Quiescent == \A i \in 1..Last : ~Outstanding(i)

\* C23, for a transport that honours cancellation and an attached hook: in a
\* quiescent state where the query has three or more characters and error is
\* empty, the latest attempt was made for the current query and results is
\* the Search value of the body it decoded.
C23_ResultsOfCurrentQuery ==
  ( /\ lifecycle = "mounted" /\ honoured /\ Quiescent
    /\ Len(query) >= 3 /\ error = "" )
  => /\ Last >= 1 /\ Done(Last) /\ effects[Last].query = query
     /\ delivered.data.Response = "True"
     /\ movies = delivered.data.Search

\* Two lookups for different queries have settled, the later one last, and
\* its list is on show.
C23_Witness ==
  /\ lifecycle = "mounted" /\ honoured /\ Quiescent /\ Last >= 2
  /\ IsAttempt(Last - 1) /\ effects[Last - 1].query # query
  /\ lastSettled = Last
  /\ Len(query) >= 3 /\ error = ""
  /\ movies = Arr(<<"tt2", "tt1">>)

\* A step that makes error non-empty leaves isLoading false, and a step that
\* starts an attempt or turns isLoading true leaves error empty.
C24_WriteStep ==
  /\ (error' # error /\ error' # "") => isLoading' = FALSE
  /\ (isLoading' = TRUE /\ (isLoading = FALSE \/ C16_StartStep)) => error' = ""

\* C24: in every state between two uninterrupted steps a non-empty error
\* comes with isLoading false, because a step that writes a message to error
\* also sets isLoading to false and a step that sets isLoading to true also
\* empties error.
C24_ErrorImpliesNotLoading ==
  /\ [](error # "" => isLoading = FALSE)
  /\ [][C24_WriteStep]_vars

\* The not-found message is on show after the second lookup, loading off.
C24_Witness ==
  /\ lifecycle = "mounted" /\ Last >= 2 /\ Done(Last) /\ lastSettled = Last
  /\ delivered.data.Response = "False"
  /\ error = "Movie not found!" /\ isLoading = FALSE
  /\ Len(log) >= 2

\* C25: results is an ordered sequence in every reachable state, also after
\* a 2xx response whose body has a Response other than "False" and no Search
\* field.
C25_ResultsIsSequence == movies.kind = "array"

\* What one step may do to tokens: it signals at most the token registered
\* by the latest effect run, a new effect run gets a fresh unsignalled token
\* and (if gated) registers none, a settled attempt stays settled, and the
\* triple changes only by an effect run or by the continuation of an attempt;
\* detaching after the registered attempt has settled changes nothing in it.
C26_TokenStep ==
  /\ \A i \in 1..Last :
        /\ (effects'[i].aborted # effects[i].aborted) => (i = cleanup /\ effects'[i].aborted)
        /\ Done(i) => effects'[i].pc = "done"
  /\ EffectRuns
       => /\ effects'[Last + 1].aborted = FALSE
          /\ Gated(query') => (effects'[Last + 1].pc = "gated" /\ cleanup' = 0
                                /\ requests' = requests)
          /\ ~Gated(query') => cleanup' = Last + 1
  /\ (triple' # triple)
       => (EffectRuns \/ \E i \in 1..Last : effects'[i].pc # effects[i].pc)
  /\ (cleanup # 0 /\ Done(cleanup) /\ effects'[cleanup].aborted /\ ~EffectRuns)
       => triple' = triple

\* C26: every effect run has a token of its own.  Signalling the token of
\* one attempt signals no other attempt's token, signalling the token of a
\* settled attempt changes nothing in the triple, and a gated effect run
\* starts no attempt and never has its token signalled.
C26_OwnToken ==
  /\ [][C26_TokenStep]_vars
  /\ [](\A i \in 1..Last :
          /\ effects[i].pc = "gated" => ~effects[i].aborted
          /\ i = Last => (effects[i].aborted => lifecycle = "unmounted"))

\* The first attempt published before its token was signalled; the attempt
\* that followed is live.
C26_Witness ==
  /\ lifecycle = "mounted" /\ honoured /\ Last = 2
  /\ effects[1].aborted /\ Done(1)
  /\ movies.items # <<>>
  /\ Live(2)

\* The triple a quiescent attached hook shows when its last effect run was
\* gated or its last attempt succeeded, as a function of the final query and
\* of the body decoded for it alone.
FinalTriple(q, d) == IF Gated(q) THEN <<Arr(<<>>), FALSE, "">> ELSE <<d.data.Search, FALSE, "">>

\* C27, for a transport that honours cancellation: in a quiescent state whose
\* final query is gated or whose final attempt succeeded, the triple is
\* FinalTriple of the final query and its response, so two runs that end with
\* the same query and response end in the same triple whatever came before.
C27_FinalTripleDetermined ==
  ( /\ lifecycle = "mounted" /\ honoured /\ Quiescent /\ Last >= 1
    /\ Gated(query) \/ ExpectedError(delivered) = "" )
  => triple = FinalTriple(query, delivered)

\* The final query is gated after one attempt failed and the next one was
\* cancelled and settled last.
C27_Witness ==
  /\ lifecycle = "mounted" /\ honoured /\ Quiescent /\ Last = 3
  /\ Gated(query) /\ IsAttempt(1) /\ IsAttempt(2)
  /\ log # <<>> /\ lastSettled = 2
  /\ triple = <<Arr(<<>>), FALSE, "">>

\* C28, for a transport that honours cancellation: while the current attempt
\* is live, a step in which that attempt is not resumed, the query does not
\* change and the consumer does not detach changes no component of the
\* triple, so isLoading stays true for as long as the request is pending.
C28_NoTimeout ==
  [][ ( /\ Last >= 1 /\ lifecycle = "mounted" /\ lifecycle' = "mounted" /\ honoured'
        /\ Live(Last)
        /\ ~EffectRuns /\ effects'[Last] = effects[Last] )
        => triple' = triple ]_vars

\* C29: before the first effect run has processed any query, results is the
\* empty sequence, isLoading is false and error is empty.
C29_InitialTriple ==
  (lifecycle = "constructed" \/ Last = 0)
    => (movies = Arr(<<>>) /\ isLoading = FALSE /\ error = "" /\ requests = <<>>)

\* The hook has been called with a query that will pass the gate and its
\* effect has not run yet.
C29_Witness ==
  /\ lifecycle = "constructed" /\ Last = 0 /\ Len(query) = 4
  /\ triple = <<Arr(<<>>), FALSE, "">>

====
